---------------------------- MODULE Spec2Model ----------------------------
(* The voice-interaction loop of src/src/main.rs: the key listener, the   *)
(* signal channel, the driver loop of main (record, transcribe, chat,     *)
(* synthesize, play), the message history, escape_json and check_err.     *)
(* Strings are sequences of one-character strings; every character of the *)
(* model is one byte of UTF-8, so byte indices and character indices      *)
(* coincide.                                                              *)
EXTENDS Integers, Sequences, FiniteSets, TLC

VARIABLES
    pc,          \* where the driver is: the stage it is in, or "Terminated"
    limit,       \* CONFIG.msg_limit
    prompt,      \* CONFIG.prompt after the deserializer `prompt`
    messages,    \* main's VecDeque<String>: the serialized turns
    chan,        \* the mpsc channel tx/rx: pending signals, oldest first
    rec,         \* the capture process `cmd` of this iteration
    players,     \* playback processes spawned and not yet exited
    transcript,  \* `resp` of line 93: the transcription
    reply,       \* `resp` of line 107: the chat reply
    body,        \* the messages array of the last chat request (line 111)
    ssml,        \* what line 133-136 put inside <voice> in the last request
    diag,        \* how the process ended, and the diagnostic it printed
    cycles,      \* iterations of the loop started
    appended,    \* history: every turn ever pushed to messages, in order
    last,        \* history: the outcome of the driver's latest call or process step
    escArg,      \* argument of a direct call of escape_json
    escRet       \* what that call returned

vars == <<pc, limit, prompt, messages, chan, rec, players, transcript, reply,
          body, ssml, diag, cycles, appended, last, escArg, escRet>>

---------------------------------------------------------------------------
(* Bounds of the model.                                                   *)
MaxLimit == 3
MaxCycles == 3
MaxPending == 2
MaxStrLen == 3
MaxReplyLen == 4

\* All strings over alphabet A of length at most n.
StringsUpTo(A, n) == UNION { [1..k -> A] : k \in 0..n }

NL == "\n"
BSL == "\\"
DQ == "\""
SQ == "'"

---------------------------------------------------------------------------
(* escape_json, lines 155-163: a fold over the characters.                *)
RECURSIVE escape_json(_)
escape_json(s) ==
    IF s = <<>> THEN <<>>
    ELSE LET c == Head(s)
             e == CASE c = BSL -> <<BSL, BSL>>
                    [] c = DQ  -> <<BSL, DQ>>
                    [] c = NL  -> <<BSL, "n">>
                    [] c = SQ  -> <<BSL, SQ>>
                    [] OTHER   -> <<c>>
         IN e \o escape_json(Tail(s))

(* serde_json's serialization of a string value (the .to_string() of      *)
(* lines 37 and 105), without the surrounding quotes: backslash, quote    *)
(* and newline are escaped, an apostrophe is not.                         *)
RECURSIVE serde_string(_)
serde_string(s) ==
    IF s = <<>> THEN <<>>
    ELSE LET c == Head(s)
             e == CASE c = BSL -> <<BSL, BSL>>
                    [] c = DQ  -> <<BSL, DQ>>
                    [] c = NL  -> <<BSL, "n">>
                    [] OTHER   -> <<c>>
         IN e \o serde_string(Tail(s))

(* A serialized turn: json!({"role": r, "content": escape_json(text)})    *)
(* .to_string(), kept as its two members; content is the text between the *)
(* quotes of the serialized member.                                       *)
Turn(r, text) == [role |-> r, content |-> serde_string(escape_json(text))]

(* The deserializer `prompt`, lines 34-38.                                *)
prompt_de(s) == IF s = <<>> THEN <<>> ELSE <<Turn("system", s)>>

---------------------------------------------------------------------------
(* The style directive of lines 133-136. Indices are Rust's: 0-based,     *)
(* ranges half-open. A range that ends past the string panics.            *)

\* str::find(" "): the 0-based index of the first space, or -1 for None.
find_space(s) ==
    IF \E i \in 1..Len(s) : s[i] = " "
    THEN (CHOOSE i \in 1..Len(s) : s[i] = " " /\ \A j \in 1..(i-1) : s[j] # " ") - 1
    ELSE -1

\* Mutant of style_pos: contains(":") instead of starts_with(":").
style_pos_anywhere(resp) ==
    IF \E i \in 1..Len(resp) : resp[i] = ":"
    THEN (IF find_space(resp) = -1 THEN Len(resp) ELSE find_space(resp)) + 1
    ELSE -1

\* resp.starts_with(":").then(|| resp.find(" ").unwrap_or(resp.len()) + 1):
\* -1 stands for None.
style_pos(resp) ==
    IF Len(resp) >= 1 /\ resp[1] = ":"
    THEN (IF find_space(resp) = -1 THEN Len(resp) ELSE find_space(resp)) + 1
    ELSE -1

\* &resp[a..b] and &resp[a..]: the slice, defined when a <= b <= len.
slice_ok(s, a, b) == a <= b /\ b <= Len(s)
slice(s, a, b) == SubSeq(s, a + 1, b)

(* The match of lines 133-136: the text put inside <voice>, or a panic    *)
(* when a slice is out of range.                                          *)
voice_content(resp) ==
    LET pos == style_pos(resp) IN
    IF pos = -1
    THEN [panic |-> FALSE, styled |-> FALSE, style |-> <<>>, text |-> resp]
    ELSE IF slice_ok(resp, 1, pos) /\ slice_ok(resp, pos + 1, Len(resp))
    THEN [panic |-> FALSE, styled |-> TRUE,
          style |-> slice(resp, 1, pos), text |-> slice(resp, pos + 1, Len(resp))]
    ELSE [panic |-> TRUE, styled |-> TRUE, style |-> <<>>, text |-> <<>>]

NoSsml == [panic |-> FALSE, styled |-> FALSE, style |-> <<>>, text |-> <<"-">>]

---------------------------------------------------------------------------
(* The chat request's messages array, lines 111-114, as its tokens: a     *)
(* serialized turn, or the separator ",".                                 *)
Sep == [role |-> ",", content |-> <<>>]

\* Mutant of fold_messages: the separator follows every turn, the last one too.
RECURSIVE fold_messages_trailing(_, _, _)
fold_messages_trailing(m, i, n) ==
    IF i > n THEN <<>>
    ELSE <<m[i], Sep>> \o fold_messages_trailing(m, i + 1, n)

\* The fold of lines 113-114; i is 1-based here, 0-based in the code.
RECURSIVE fold_messages(_, _, _)
fold_messages(m, i, n) ==
    IF i > n THEN <<>>
    ELSE (IF i - 1 = n - 1 THEN <<m[i]>> ELSE <<m[i], Sep>>)
         \o fold_messages(m, i + 1, n)

render(p, m) ==
    p \o (IF p # <<>> THEN <<Sep>> ELSE <<>>) \o fold_messages(m, 1, Len(m))

---------------------------------------------------------------------------
(* HTTP responses. A response is its status and its body; a body is the   *)
(* literal text `raw`, and what a JSON parse and the field lookups of     *)
(* lines 100-101 / 116-120 find in it: `shape`, and the string `text`     *)
(* when the looked-up field is a string.                                  *)
Statuses == {200, 304, 401, 500}

TextBody(t) == [shape |-> "string", raw |-> "{..}", text |-> t]
ErrorBody   == [shape |-> "nofield", raw |-> "{\"error\":\"invalid key\"}", text |-> <<>>]
NotJsonBody == [shape |-> "notjson", raw |-> "<html>", text |-> <<>>]
NonStringBody == [shape |-> "nonstring", raw |-> "{..:1}", text |-> <<>>]
NoBody      == [shape |-> "notjson", raw |-> "", text |-> <<>>]
Bodies(T) == { TextBody(t) : t \in T } \cup {ErrorBody, NotJsonBody, NonStringBody}

\* reqwest's error_for_status_ref: an error for a client or server error status.
error_for_status(status) == status \in 400..599

NoDiag == [how |-> "running", msg |-> "", status |-> 0, body |-> ""]

\* Mutant of check_err: the panic message leaves the response body out.
check_err_nobody(r) ==
    IF error_for_status(r.status)
    THEN [how |-> "panic", msg |-> "Error", status |-> r.status, body |-> ""]
    ELSE NoDiag

(* check_err, lines 148-153: the diagnostic of its panic.                 *)
check_err(r) ==
    IF error_for_status(r.status)
    THEN [how |-> "panic", msg |-> "Error", status |-> r.status, body |-> r.body.raw]
    ELSE NoDiag

(* What follows check_err at lines 100-102 and 116-121: .json()? fails on *)
(* a body that is not JSON, get_mut(..).unwrap() panics on a missing      *)
(* field, and the let-else panics on a value that is not a string.        *)
extract(r) ==
    CASE r.body.shape = "notjson"   -> [how |-> "err", msg |-> "decode", status |-> 0, body |-> ""]
      [] r.body.shape = "nofield"   -> [how |-> "panic", msg |-> "unwrap on None", status |-> 0, body |-> ""]
      [] r.body.shape = "nonstring" -> [how |-> "panic", msg |-> "Invalid response", status |-> 0, body |-> ""]
      [] OTHER -> NoDiag

\* A `?` on an I/O or transport error: main returns Err.
io_error(what) == [how |-> "err", msg |-> what, status |-> 0, body |-> ""]

\* Mutant of Terminate: the failure is reported and the loop starts over.
Terminate_retry(d) ==
    /\ pc' = "WaitingForTrigger"
    /\ diag' = d

(* The process ends: by a panic or by main returning Err. Nothing of the  *)
(* loop runs afterwards.                                                  *)
Terminate(d) ==
    /\ pc' = "Terminated"
    /\ diag' = d

---------------------------------------------------------------------------
(* What the outside world can answer.                                     *)
Transcripts == { <<"h", "i">>, <<"i", "t", SQ, "s">> }
Replies == { <<"o", "k">>, <<":", "c", " ", "H", "i">>, <<":", "c">> }
SysPrompt == <<"b", "e">>
AudioBody == [shape |-> "bytes", raw |-> "mp3", text |-> <<>>]

EscAlphabet == {BSL, DQ, NL, SQ, "a", "n"}
StyleAlphabet == {":", " ", "a", "b"}

NotCalled == [done |-> FALSE, out |-> <<>>]

\* The outcome of a call: of an HTTP call that was answered, its response.
NoCall == [stage |-> "none", kind |-> "none", status |-> 0, body |-> NoBody]
Answered(stage, r) == [stage |-> stage, kind |-> "http", status |-> r.status, body |-> r.body]
IoError(stage) == [stage |-> stage, kind |-> "io error", status |-> 0, body |-> NoBody]
IoOk(stage) == [stage |-> stage, kind |-> "ok", status |-> 0, body |-> NoBody]

\* Mutant of pop_front: the newest turn is removed instead of the oldest.
pop_back(m) == IF m = <<>> THEN m ELSE SubSeq(m, 1, Len(m) - 1)

\* VecDeque::pop_front: removes the front element, if there is one.
pop_front(m) == IF m = <<>> THEN m ELSE Tail(m)

\* Mutant of evict: the check is > instead of >=.
evict_gt(m, L) == IF Len(m) > L THEN pop_front(m) ELSE m

\* Mutant of evict: the configured prompt is counted as a stored turn.
evict_counting_prompt(m, L) == IF Len(m) + Len(prompt) >= L THEN pop_front(m) ELSE m

\* Line 124: if messages.len() >= CONFIG.msg_limit { messages.pop_front(); }
evict(m, L) == IF Len(m) >= L THEN pop_front(m) ELSE m

---------------------------------------------------------------------------
Init ==
    /\ pc = "WaitingForTrigger"
    /\ limit \in 0..MaxLimit
    /\ prompt \in {prompt_de(<<>>), prompt_de(SysPrompt)}
    /\ messages = <<>>
    /\ chan = <<>>
    /\ rec = "none"
    /\ players = 0
    /\ transcript = <<>>
    /\ reply = <<>>
    /\ body = <<>>
    /\ ssml = NoSsml
    /\ diag = NoDiag
    /\ cycles = 0
    /\ appended = <<>>
    /\ last = NoCall
    /\ escArg = <<>>
    /\ escRet = NotCalled

\* The driver is blocked in rx.recv() (lines 80 and 88) in these two stages.
Waiting == {"WaitingForTrigger", "Recording"}
pressed_while(p) == IF p \in Waiting THEN "waiting" ELSE "busy"

\* tx.send(()), line 75, on the unbounded channel of line 64.
send(c, sig) == Append(c, sig)

\* rx.recv(), lines 80 and 88: takes the oldest pending signal.
recv(c) == Tail(c)

(* The listener, lines 72-76: a press of the configured key sends one     *)
(* signal. The channel is std::sync::mpsc::channel(), line 64. Each       *)
(* signal is () in the code; the model keeps with it whether the driver  *)
(* was waiting for a signal or busy when the key was pressed.             *)
KeyPress ==
    /\ pc # "Terminated"
    /\ Len(chan) < MaxPending
    /\ chan' = send(chan, pressed_while(pc))
    /\ UNCHANGED <<pc, limit, prompt, messages, rec, players, transcript, reply,
                   body, ssml, diag, cycles, appended, last, escArg, escRet>>

(* Lines 79-85: rx.recv() returns the oldest pending signal, then the     *)
(* capture process is spawned.                                            *)
RecvStart ==
    /\ pc = "WaitingForTrigger"
    /\ chan # <<>>
    /\ cycles < MaxCycles
    /\ chan' = recv(chan)
    /\ cycles' = cycles + 1
    /\ \E ok \in BOOLEAN :
         IF ok
         THEN /\ pc' = "Recording" /\ rec' = "running" /\ diag' = diag
              /\ last' = IoOk("Recording")
         ELSE /\ Terminate(io_error("spawn ffmpeg")) /\ rec' = rec
              /\ last' = IoError("Recording")
    /\ UNCHANGED <<limit, prompt, messages, players, transcript, reply,
                   body, ssml, appended, escArg, escRet>>

\* Mutant of RecvStop: the quit byte is written and the process is not waited for.
RecvStop_nowait ==
    /\ pc = "Recording"
    /\ chan # <<>>
    /\ chan' = recv(chan)
    /\ \E o \in {"ok", "write fails", "wait fails"}, code \in {0, 1} :
         CASE o = "write fails" ->
                /\ Terminate(io_error("write q")) /\ rec' = rec
                /\ last' = IoError("Recording")
           [] o = "wait fails"  ->
                /\ Terminate([how |-> "panic", msg |-> "wait", status |-> 0, body |-> ""])
                /\ rec' = rec
                /\ last' = IoError("Recording")
           [] OTHER ->
                /\ rec' = rec
                /\ pc' = "Transcribing"
                /\ diag' = diag
                /\ last' = IoOk("Recording")
    /\ UNCHANGED <<limit, prompt, messages, players, transcript, reply,
                   body, ssml, cycles, appended, escArg, escRet>>

(* Lines 87-91: rx.recv(), then the quit byte is written and the process  *)
(* is waited for. The exit status wait() returns is not looked at.        *)
RecvStop ==
    /\ pc = "Recording"
    /\ chan # <<>>
    /\ chan' = recv(chan)
    /\ \E o \in {"ok", "write fails", "wait fails"}, code \in {0, 1} :
         CASE o = "write fails" ->
                /\ Terminate(io_error("write q")) /\ rec' = rec
                /\ last' = IoError("Recording")
           [] o = "wait fails"  ->
                /\ Terminate([how |-> "panic", msg |-> "wait", status |-> 0, body |-> ""])
                /\ rec' = rec
                /\ last' = IoError("Recording")
           [] OTHER ->
                /\ rec' = IF code = 0 THEN "exited 0" ELSE "exited 1"
                /\ pc' = "Transcribing"
                /\ diag' = diag
                /\ last' = IoOk("Recording")
    /\ UNCHANGED <<limit, prompt, messages, players, transcript, reply,
                   body, ssml, cycles, appended, escArg, escRet>>

\* Mutant of Transcribe: the eviction check runs right after the push, before
\* the chat request is built.
Transcribe_evict(T) ==
    /\ pc = "Transcribing"
    /\ \/ /\ Terminate(io_error("send"))
          /\ last' = IoError("Transcribing")
          /\ UNCHANGED <<messages, appended, transcript>>
       \/ \E r \in [status : Statuses, body : Bodies(T)] :
            /\ last' = Answered("Transcribing", r)
            /\ IF check_err(r) # NoDiag
               THEN Terminate(check_err(r)) /\ UNCHANGED <<messages, appended, transcript>>
               ELSE IF extract(r) # NoDiag
               THEN Terminate(extract(r)) /\ UNCHANGED <<messages, appended, transcript>>
               ELSE /\ transcript' = r.body.text
                    /\ messages' = evict(Append(messages, Turn("user", r.body.text)), limit)
                    /\ appended' = Append(appended, Turn("user", r.body.text))
                    /\ pc' = "AwaitingReply"
                    /\ diag' = diag
    /\ UNCHANGED <<limit, prompt, chan, rec, players, reply, body, ssml, cycles,
                   escArg, escRet>>

(* Lines 93-105: the transcription call, then the user turn is pushed.    *)
Transcribe(T) ==
    /\ pc = "Transcribing"
    /\ \/ /\ Terminate(io_error("send"))
          /\ last' = IoError("Transcribing")
          /\ UNCHANGED <<messages, appended, transcript>>
       \/ \E r \in [status : Statuses, body : Bodies(T)] :
            /\ last' = Answered("Transcribing", r)
            /\ IF check_err(r) # NoDiag
               THEN Terminate(check_err(r)) /\ UNCHANGED <<messages, appended, transcript>>
               ELSE IF extract(r) # NoDiag
               THEN Terminate(extract(r)) /\ UNCHANGED <<messages, appended, transcript>>
               ELSE /\ transcript' = r.body.text
                    /\ messages' = Append(messages, Turn("user", r.body.text))
                    /\ appended' = Append(appended, Turn("user", r.body.text))
                    /\ pc' = "AwaitingReply"
                    /\ diag' = diag
    /\ UNCHANGED <<limit, prompt, chan, rec, players, reply, body, ssml, cycles,
                   escArg, escRet>>

(* Lines 107-124: the chat request is built from the prompt and the       *)
(* messages and sent; on a reply, the eviction check of line 124.         *)
Chat(R) ==
    /\ pc = "AwaitingReply"
    /\ body' = render(prompt, messages)
    /\ \/ /\ Terminate(io_error("send"))
          /\ last' = IoError("AwaitingReply")
          /\ UNCHANGED <<messages, reply>>
       \/ \E r \in [status : Statuses, body : Bodies(R)] :
            /\ last' = Answered("AwaitingReply", r)
            /\ IF check_err(r) # NoDiag
               THEN Terminate(check_err(r)) /\ UNCHANGED <<messages, reply>>
               ELSE IF extract(r) # NoDiag
               THEN Terminate(extract(r)) /\ UNCHANGED <<messages, reply>>
               ELSE /\ reply' = r.body.text
                    /\ messages' = evict(messages, limit)
                    /\ pc' = "Synthesizing"
                    /\ diag' = diag
    /\ UNCHANGED <<limit, prompt, chan, rec, players, transcript, ssml, cycles,
                   appended, escArg, escRet>>

\* Mutant of Synthesize: the iteration is given up (a `continue`) before the
\* synthesis and the playback.
Synthesize_skip ==
    /\ pc = "Synthesizing"
    /\ pc' = "WaitingForTrigger"
    /\ UNCHANGED <<limit, prompt, messages, chan, rec, players, transcript, reply,
                   body, ssml, diag, cycles, appended, last, escArg, escRet>>

(* Lines 126-138: the SSML body is built around the reply and sent.       *)
Synthesize ==
    /\ pc = "Synthesizing"
    /\ IF voice_content(reply).panic
       THEN /\ Terminate([how |-> "panic", msg |-> "slice index", status |-> 0, body |-> ""])
            /\ ssml' = ssml
            /\ last' = last
       ELSE /\ ssml' = voice_content(reply)
            /\ \/ /\ Terminate(io_error("send"))
                  /\ last' = IoError("Synthesizing")
               \/ \E r \in [status : Statuses, body : {AudioBody, ErrorBody}] :
                    /\ last' = Answered("Synthesizing", r)
                    /\ IF check_err(r) # NoDiag
                       THEN Terminate(check_err(r))
                       ELSE pc' = "Playing" /\ diag' = diag
    /\ UNCHANGED <<limit, prompt, messages, chan, rec, players, transcript, reply,
                   body, cycles, appended, escArg, escRet>>

\* Mutant of Play: the driver waits for the playback process to exit before it
\* goes back to waiting for the trigger.
Play_wait ==
    /\ pc = "Playing"
    /\ \E o \in {"ok", "spawn fails", "write fails"} :
         CASE o = "spawn fails" ->
                /\ Terminate(io_error("spawn mpv"))
                /\ last' = IoError("Playing")
                /\ UNCHANGED <<players, rec, transcript, reply, body, ssml>>
           [] o = "write fails" ->
                /\ Terminate(io_error("write audio"))
                /\ last' = IoError("Playing")
                /\ players' = players + 1
                /\ UNCHANGED <<rec, transcript, reply, body, ssml>>
           [] OTHER ->
                /\ players' = players
                /\ pc' = "WaitingForTrigger"
                /\ rec' = "none"
                /\ transcript' = <<>>
                /\ reply' = <<>>
                /\ body' = <<>>
                /\ ssml' = NoSsml
                /\ diag' = diag
                /\ last' = IoOk("Playing")
    /\ UNCHANGED <<limit, prompt, messages, chan, cycles, appended, escArg, escRet>>

(* Lines 140-145: the player is spawned and the audio written to it; the  *)
(* iteration ends and its locals are dropped.                             *)
Play ==
    /\ pc = "Playing"
    /\ \E o \in {"ok", "spawn fails", "write fails"} :
         CASE o = "spawn fails" ->
                /\ Terminate(io_error("spawn mpv"))
                /\ last' = IoError("Playing")
                /\ UNCHANGED <<players, rec, transcript, reply, body, ssml>>
           [] o = "write fails" ->
                /\ Terminate(io_error("write audio"))
                /\ last' = IoError("Playing")
                /\ players' = players + 1
                /\ UNCHANGED <<rec, transcript, reply, body, ssml>>
           [] OTHER ->
                /\ players' = players + 1
                /\ pc' = "WaitingForTrigger"
                /\ rec' = "none"
                /\ transcript' = <<>>
                /\ reply' = <<>>
                /\ body' = <<>>
                /\ ssml' = NoSsml
                /\ diag' = diag
                /\ last' = IoOk("Playing")
    /\ UNCHANGED <<limit, prompt, messages, chan, cycles, appended, escArg, escRet>>

(* A playback process finishes on its own.                                *)
PlayerExit ==
    /\ players > 0
    /\ players' = players - 1
    /\ UNCHANGED <<pc, limit, prompt, messages, chan, rec, transcript, reply,
                   body, ssml, diag, cycles, appended, last, escArg, escRet>>

Next ==
    \/ KeyPress
    \/ RecvStart
    \/ RecvStop
    \/ Transcribe(Transcripts)
    \/ Chat(Replies)
    \/ Synthesize
    \/ Play
    \/ PlayerExit

Spec == Init /\ [][Next]_vars

---------------------------------------------------------------------------
(* escape_json called on its own, on every string of the alphabet.        *)
EscapeInit ==
    /\ pc = "WaitingForTrigger"
    /\ limit = 1
    /\ prompt = <<>>
    /\ messages = <<>>
    /\ chan = <<>>
    /\ rec = "none"
    /\ players = 0
    /\ transcript = <<>>
    /\ reply = <<>>
    /\ body = <<>>
    /\ ssml = NoSsml
    /\ diag = NoDiag
    /\ cycles = 0
    /\ appended = <<>>
    /\ last = NoCall
    /\ escArg \in StringsUpTo(EscAlphabet, MaxStrLen)
    /\ escRet = NotCalled

EscapeCall ==
    /\ ~escRet.done
    /\ escRet' = [done |-> TRUE, out |-> escape_json(escArg)]
    /\ UNCHANGED <<pc, limit, prompt, messages, chan, rec, players, transcript, reply,
                   body, ssml, diag, cycles, appended, last, escArg>>

EscapeSpec == EscapeInit /\ [][EscapeCall]_vars

(* The synthesis step on every reply of the alphabet: the driver is in    *)
(* Synthesizing in its first iteration, with limit 1 and no prompt.       *)
StyleInit ==
    /\ pc = "Synthesizing"
    /\ limit = 1
    /\ prompt = <<>>
    /\ transcript = <<"h", "i">>
    /\ appended = <<Turn("user", transcript)>>
    /\ messages = evict(appended, limit)
    /\ chan = <<>>
    /\ rec = "exited 0"
    /\ players = 0
    /\ reply \in StringsUpTo(StyleAlphabet, MaxReplyLen)
    /\ body = render(prompt, appended)
    /\ ssml = NoSsml
    /\ diag = NoDiag
    /\ cycles = 1
    /\ last = Answered("AwaitingReply", [status |-> 200, body |-> TextBody(reply)])
    /\ escArg = <<>>
    /\ escRet = NotCalled

StyleSpec == StyleInit /\ [][Synthesize]_vars

---------------------------------------------------------------------------
(* Claims.                                                                *)

Min(a, b) == IF a < b THEN a ELSE b
Max(a, b) == IF a < b THEN b ELSE a

\* The last n elements of q.
LastN(q, n) == SubSeq(q, Len(q) - n + 1, Len(q))

\* The eviction check of the current iteration has run, or no iteration has started.
AfterEviction == pc \in {"Synthesizing", "Playing", "WaitingForTrigger", "Recording", "Transcribing"}

(* C1 as stated: in every reachable state, for every limit L >= 0, the    *)
(* history holds at most L turns, the state between the push of the user  *)
(* turn and the eviction check included.                                  *)
C1_AtMostLimit == Len(messages) <= limit

(* C1, amended: in every reachable state the history holds at most        *)
(* max(L, 1) turns: at most L for every limit L >= 1, and for L = 0 the   *)
(* one user turn between its push and the eviction check.                 *)
C1_AtMostLimitOrOne == Len(messages) <= Max(limit, 1)

\* The chat request is being built with a full history, after an earlier eviction.
C1_Witness ==
    /\ pc = "AwaitingReply"
    /\ limit = 2
    /\ Len(messages) = 2
    /\ Len(appended) = 3

(* C2 as stated: once an iteration has done its push and its eviction     *)
(* check, the history is exactly the last min(N, L) of the N turns pushed *)
(* so far, in their order.                                                *)
C2_LastLimit ==
    AfterEviction => messages = LastN(appended, Min(Len(appended), limit))

(* C2, amended: once an iteration has done its push and its eviction      *)
(* check, the history is exactly the last min(N, max(L - 1, 0)) of the N  *)
(* turns pushed so far, in their order.                                   *)
C2_LastLimitMinusOne ==
    AfterEviction => messages = LastN(appended, Min(Len(appended), Max(limit - 1, 0)))

\* Three turns pushed with limit 3: the two newest, different ones, are kept.
C2_Witness ==
    /\ pc = "Synthesizing"
    /\ limit = 3
    /\ Len(appended) = 3
    /\ Len(messages) = 2
    /\ messages[1] # messages[2]

(* C3: in a successful iteration, once the chat reply has arrived, the    *)
(* last two turns pushed to the history are the user turn of the          *)
(* transcript and then the assistant turn of the reply.                   *)
C3_UserThenAssistant ==
    pc \in {"Synthesizing", "Playing"} =>
        /\ Len(appended) >= 2
        /\ appended[Len(appended) - 1] = Turn("user", transcript)
        /\ appended[Len(appended)] = Turn("assistant", reply)

\* A reply ':' + s + ' ' + t with s non-empty and without a space.
FirstSpace(r) == CHOOSE k \in 1..Len(r) : r[k] = " " /\ \A j \in 1..(k - 1) : r[j] # " "
HasSpace(r) == \E k \in 1..Len(r) : r[k] = " "
IsDirective(r) == Len(r) >= 3 /\ r[1] = ":" /\ HasSpace(r) /\ FirstSpace(r) >= 3

(* C4: for a reply ':' + s + ' ' + t, the synthesis request that was sent *)
(* has t inside a style element whose style is s: nothing of s or t is    *)
(* lost and no separator is part of either.                               *)
C4_StyleSplit ==
    (pc = "Playing" /\ IsDirective(reply)) =>
        /\ ssml.styled
        /\ ssml.style = SubSeq(reply, 2, FirstSpace(reply) - 1)
        /\ ssml.text = SubSeq(reply, FirstSpace(reply) + 1, Len(reply))

(* C5: for a reply that starts with ':' and has no space, the synthesis   *)
(* step does not fail: the request is built with everything after the     *)
(* colon as the style and an empty spoken text.                           *)
C5_NoSpace ==
    (pc # "Synthesizing" /\ Len(reply) >= 1 /\ reply[1] = ":" /\ ~HasSpace(reply)) =>
        /\ diag.how # "panic"
        /\ ssml.styled
        /\ ssml.style = Tail(reply)
        /\ ssml.text = <<>>

(* The content of a JSON string literal decoded (RFC 8259, section 7):    *)
(* an unescaped quote, backslash or control character is not allowed; of  *)
(* the escapes, those the alphabet can form are \\ \" and \n.             *)
RECURSIVE json_decode(_)
json_decode(lit) ==
    IF lit = <<>> THEN [ok |-> TRUE, val |-> <<>>]
    ELSE IF Head(lit) = BSL
    THEN IF Len(lit) >= 2 /\ lit[2] \in {BSL, DQ, "n"}
         THEN LET rest == json_decode(SubSeq(lit, 3, Len(lit)))
                  c == IF lit[2] = "n" THEN NL ELSE lit[2]
              IN [ok |-> rest.ok, val |-> IF rest.ok THEN <<c>> \o rest.val ELSE <<>>]
         ELSE [ok |-> FALSE, val |-> <<>>]
    ELSE IF Head(lit) \in {DQ, NL}
    THEN [ok |-> FALSE, val |-> <<>>]
    ELSE LET rest == json_decode(Tail(lit))
         IN [ok |-> rest.ok, val |-> IF rest.ok THEN <<Head(lit)>> \o rest.val ELSE <<>>]

(* C6: what escape_json returns, put between double quotes, is a valid    *)
(* JSON string literal that decodes to the argument.                      *)
C6_RoundTrip ==
    escRet.done => json_decode(escRet.out) = [ok |-> TRUE, val |-> escArg]

(* C7: the channel never holds more than one pending signal.              *)
C7_AtMostOnePending == Len(chan) <= 1

(* C8: while the driver waits for a signal, no signal of a key press made *)
(* during a busy stage (Transcribing, AwaitingReply, Synthesizing,        *)
(* Playing) is pending.                                                   *)
C8_NoStaleSignal ==
    pc \in Waiting => \A i \in 1..Len(chan) : chan[i] # "busy"

\* The step is the transcription call being answered.
TranscriptionAnswered ==
    pc = "Transcribing" /\ last'.stage = "Transcribing" /\ last'.kind = "http"

ShapeMismatch(l) == l.stage \in {"Transcribing", "AwaitingReply"} /\ l.body.shape # "string"
FailedNon2xx(l) ==
    \/ l.kind = "io error"
    \/ l.kind = "http" /\ (l.status \notin 200..299 \/ ShapeMismatch(l))
FailedError(l) ==
    \/ l.kind = "io error"
    \/ l.kind = "http" /\ (l.status \in 400..599 \/ ShapeMismatch(l))

\* Nothing of the driver moves: no stage, no retry, no new iteration.
DriverStopped ==
    /\ pc' = "Terminated"
    /\ UNCHANGED <<messages, appended, cycles, last, diag, rec, transcript, reply, body, ssml>>

C11_NonZeroExitFatal ==
    rec = "exited 1" => pc = "Terminated"

\* The stage that follows each stage of the loop.
StageAfter(p) ==
    CASE p = "WaitingForTrigger" -> "Recording"
      [] p = "Recording"         -> "Transcribing"
      [] p = "Transcribing"      -> "AwaitingReply"
      [] p = "AwaitingReply"     -> "Synthesizing"
      [] p = "Synthesizing"      -> "Playing"
      [] p = "Playing"           -> "WaitingForTrigger"
      [] OTHER                   -> "Terminated"

(* C12: the driver leaves a stage only for the next stage of the cycle    *)
(* WaitingForTrigger, Recording, Transcribing, AwaitingReply,             *)
(* Synthesizing, Playing, WaitingForTrigger, or, on an error, for the end *)
(* of the process; a stage is left only once its own step has completed.  *)
C12_CyclicOrder ==
    [][pc' # pc =>
          \/ pc' = StageAfter(pc) /\ diag' = NoDiag
          \/ pc' = "Terminated" /\ diag' # NoDiag]_vars

\* The third iteration has come round to Playing without an error.
C12_Witness ==
    /\ pc = "Playing"
    /\ cycles = 3
    /\ diag = NoDiag


(* C13: when the audio has been written, the driver goes back to          *)
(* WaitingForTrigger with the playback process it has just spawned still  *)
(* running: it does not wait for it to exit.                              *)
C13_FireAndForget ==
    [][(pc = "Playing" /\ pc' = "WaitingForTrigger") => players' = players + 1]_vars

\* A new recording has started while the playback of the last reply still runs.
C13_Witness ==
    /\ pc = "Recording"
    /\ cycles = 2
    /\ players = 1


\* b is the elements of els in order, with one separator between neighbours.
Separated(b, els) ==
    /\ Len(b) = 2 * Len(els) - 1
    /\ \A i \in 1..Len(els) : b[2 * i - 1] = els[i]
    /\ \A i \in 1..(Len(els) - 1) : b[2 * i] = Sep

(* C14: the messages array of a chat request is, with an empty prompt,    *)
(* the turns of the history in order and no system turn; with a prompt,   *)
(* the system turn and then the turns of the history in order; one        *)
(* separator stands between neighbours.                                   *)
C14_Rendering ==
    [][(pc = "AwaitingReply" /\ pc' # pc) =>
          /\ prompt = <<>> =>
                /\ Separated(body', messages)
                /\ \A i \in 1..Len(body') : body'[i].role # "system"
          /\ prompt # <<>> =>
                /\ body'[1] = Turn("system", SysPrompt)
                /\ Separated(body', <<Turn("system", SysPrompt)>> \o messages)]_vars

\* A request of the system turn and two turns of the history.
C14_Witness ==
    /\ pc = "Synthesizing"
    /\ prompt # <<>>
    /\ Len(body) = 5
    /\ body[1].role = "system"
    /\ body[3] # body[5]


(* C15: for a reply that does not start with ':', the synthesis step puts *)
(* the whole reply, unchanged, inside the voice element with no style     *)
(* element, whatever spaces or later colons it has, and does not fail on  *)
(* building the request.                                                  *)
C15_PlainPassThrough ==
    (pc # "Synthesizing" /\ (reply = <<>> \/ reply[1] # ":")) =>
        /\ ~ssml.styled
        /\ ssml.text = reply
        /\ diag.msg # "slice index"

\* A reply with a space and a colon further on has been sent for synthesis.
C15_Witness ==
    /\ pc = "Playing"
    /\ reply = <<"a", " ", ":", "b">>
    /\ ssml.text = reply


Exited == {"exited 0", "exited 1"}

(* C16: the capture process of an iteration has exited before the         *)
(* transcription request of that iteration is issued, and in every later  *)
(* stage; it runs only while the driver records (or the process has       *)
(* ended), so a new one is never spawned beside a running one.            *)
C16_RecorderExitedFirst ==
    /\ pc \in {"Transcribing", "AwaitingReply", "Synthesizing", "Playing"} => rec \in Exited
    /\ last.stage = "Transcribing" => rec \in Exited
    /\ pc = "WaitingForTrigger" => rec = "none"
    /\ rec = "running" => pc \in {"Recording", "Terminated"}

\* The transcription of the second iteration has been answered, its recorder gone.
C16_Witness ==
    /\ pc = "AwaitingReply"
    /\ cycles = 2
    /\ last.stage = "Transcribing"
    /\ rec = "exited 0"


(* C17: the history holds user and assistant turns only, never the system *)
(* turn, and the number of turns it holds is decided by the number of     *)
(* turns pushed and the limit alone, the same with and without a prompt.  *)
C17_PromptNotStored ==
    /\ \A i \in 1..Len(messages) : messages[i].role \in {"user", "assistant"}
    /\ AfterEviction => Len(messages) = Min(Len(appended), Max(limit - 1, 0))
    /\ pc = "AwaitingReply" => Len(messages) = Min(Len(appended), Max(limit, 1))

\* With a prompt configured and limit 3, three pushes have left two turns.
C17_Witness ==
    /\ prompt # <<>>
    /\ pc = "Synthesizing"
    /\ limit = 3
    /\ Len(appended) = 3
    /\ Len(messages) = 2


(* C18: when the chat request is built the history is not empty, for      *)
(* every limit and in every iteration, and its last turn, which is the    *)
(* last message of the request, is the user turn of the transcript of the *)
(* same iteration.                                                        *)
C18_RequestEndsWithUserTurn ==
    /\ pc = "AwaitingReply" =>
          /\ messages # <<>>
          /\ messages[Len(messages)] = Turn("user", transcript)
    /\ pc \in {"Synthesizing", "Playing"} =>
          /\ body # <<>>
          /\ body[Len(body)] = Turn("user", transcript)

\* Limit 0, second iteration: the request is about to be built from one turn.
C18_Witness ==
    /\ pc = "AwaitingReply"
    /\ limit = 0
    /\ cycles = 2
    /\ Len(messages) = 1


(* C19: the content member of the user turn that is stored and put into   *)
(* the chat request is a valid JSON string literal that decodes to the    *)
(* transcript itself: the text is encoded once.                           *)
C19_EncodedOnce ==
    pc = "AwaitingReply" =>
        json_decode(messages[Len(messages)].content) = [ok |-> TRUE, val |-> transcript]


---------------------------------------------------------------------------
(* Executions in which every external call and process operation          *)
(* succeeds: each HTTP call is answered with a 2xx status and a body of   *)
(* the expected shape, each spawn, write and wait succeeds. The driver is *)
(* main's own thread: a step of it that can be taken is taken. Key        *)
(* presses come as the user makes them, under no fairness.                *)
Succeeded(l) ==
    \/ l.kind \in {"none", "ok"}
    \/ /\ l.kind = "http"
       /\ l.status \in 200..299
       /\ l.stage \in {"Transcribing", "AwaitingReply"} => l.body.shape = "string"
       /\ l.stage = "Synthesizing" => l.body = AudioBody

Driver ==
    \/ RecvStart
    \/ RecvStop
    \/ Transcribe(Transcripts)
    \/ Chat(Replies)
    \/ Synthesize
    \/ Play

DriverOk == Driver /\ Succeeded(last')

OkNext ==
    \/ KeyPress
    \/ PlayerExit
    \/ RecvStart /\ Succeeded(last')
    \/ RecvStop /\ Succeeded(last')
    \/ Transcribe(Transcripts) /\ Succeeded(last')
    \/ Chat(Replies) /\ Succeeded(last')
    \/ Synthesize /\ Succeeded(last')
    \/ Play /\ Succeeded(last')

LiveSpec == Init /\ [][OkNext]_vars /\ WF_vars(DriverOk)

(* C20: when every call and process operation succeeds, a recording whose *)
(* stop signal has been delivered leads back to WaitingForTrigger.        *)
C20_CycleReturns ==
    (pc = "Recording" /\ chan # <<>>) ~> (pc = "WaitingForTrigger")

============================================================================
